------------------------------ MODULE Spec2Model ------------------------------
(***************************************************************************)
(* StudyAssist-AI (src/app.py): the text-analysis pipeline (clean_text,    *)
(* split_sentences, tokenize_words, summarize_text, generate_questions)    *)
(* and the upload handler index().                                         *)
(*                                                                         *)
(* A Python str is modelled as a sequence of one-character strings, so     *)
(* that slicing, joining, regular-expression scans and length tests are    *)
(* computed on the characters themselves.                                  *)
(***************************************************************************)
EXTENDS Integers, Sequences, FiniteSets, TLC

VARIABLES
    raw_text,    \* the string handed to the pipeline (index: the file's contents)
    text,        \* the string the next function is applied to
    op,          \* the function applied last ("input" before any)
    arg,         \* its integer argument (num_sentences / max_q), 0 when it has none
    sentences,   \* split_sentences(text), as computed by the last function
    summary,     \* summarize_text's return value
    questions,   \* generate_questions' return value
    \* one request handled by index():
    pc,          \* the handler's position
    method,      \* request.method
    has_file,    \* "file" in request.files
    filename,    \* file.filename, as sent by the client
    saved_name,  \* filename = secure_filename(file.filename)
    content,     \* what reading the saved file yields, if it can be read
    passed,      \* the checks the request got through, in order
    calls,       \* the calls of summarize_text and generate_questions made
    flashes,     \* the messages flashed
    response     \* what the handler returned ("none" while it runs)

textVars == <<raw_text, text, op, arg, sentences, summary, questions>>
reqVars == <<pc, method, has_file, filename, saved_name, content, passed, calls,
             flashes, response>>
vars == <<textVars, reqVars>>

-----------------------------------------------------------------------------
(* Characters                                                              *)

\* Python's str.isspace() / regex \s, restricted to the characters modelled.
WHITESPACE == {" ", "\t", "\n", "\r", "\f"}

\* [.!?] of the sentence-splitting regex.
TERMINALS == {".", "!", "?"}

Min(S) == CHOOSE x \in S : \A y \in S : x <= y
Max(S) == CHOOSE x \in S : \A y \in S : x >= y

\* c * n
Rep(c, n) == [i \in 1..n |-> c]

\* <<1, ..., Len(s)>>: the positions of s, for position-dependent scans.
Positions(s) == [i \in 1..Len(s) |-> i]

\* Whether a maximal run of characters of cls starts at s[i].
RunStartsAt(s, i, cls) == s[i] \in cls /\ (i = 1 \/ s[i - 1] \notin cls)

\* Length of the maximal run of characters of class cls starting at s[i].
RunLen(s, i, cls) ==
    Min({j \in i..(Len(s) + 1) : j > Len(s) \/ s[j] \notin cls}) - i

\* First position of the maximal run of cls that contains s[i] (s[i] \in cls).
RunStart(s, i, cls) == Max({j \in 1..i : RunStartsAt(s, j, cls)})

\* re.sub(r"<cls>{n,}", rep, s) for a one-character rep: every maximal run of
\* at least n characters of cls is replaced by rep; everything else is copied.
SubRuns(s, cls, n, rep) ==
    LET long(i) == s[i] \in cls /\
                   LET b == RunStart(s, i, cls) IN RunLen(s, b, cls) >= n
        kept == SelectSeq(Positions(s),
                          LAMBDA i : ~long(i) \/ RunStartsAt(s, i, cls))
    IN  [k \in 1..Len(kept) |-> IF long(kept[k]) THEN rep ELSE s[kept[k]]]

\* str.replace(old, new) for one-character old and new.
ReplaceChar(s, old, new) == [i \in 1..Len(s) |-> IF s[i] = old THEN new ELSE s[i]]

\* str.strip()
Strip(s) ==
    LET keep == {i \in 1..Len(s) : s[i] \notin WHITESPACE} IN
    IF keep = {} THEN <<>> ELSE SubSeq(s, Min(keep), Max(keep))

-----------------------------------------------------------------------------
(* clean_text                                                              *)

\* Mutants of clean_text: the newline runs collapsed before "\r" is replaced;
\* only spaces (not tabs) collapsed; the space/tab runs not collapsed at all.
clean_text_collapse_first(t) ==
    LET t1 == SubRuns(t, {"\n"}, 2, "\n")
        t2 == ReplaceChar(t1, "\r", "\n")
        t3 == SubRuns(t2, {" ", "\t"}, 2, " ")
    IN  Strip(t3)

clean_text_spaces_only(t) ==
    LET t1 == ReplaceChar(t, "\r", "\n")
        t2 == SubRuns(t1, {"\n"}, 2, "\n")
        t3 == SubRuns(t2, {" "}, 2, " ")
    IN  Strip(t3)

clean_text_no_collapse(t) ==
    LET t1 == ReplaceChar(t, "\r", "\n")
        t2 == SubRuns(t1, {"\n"}, 2, "\n")
    IN  Strip(t2)

clean_text(t) ==
    LET t1 == ReplaceChar(t, "\r", "\n")
        t2 == SubRuns(t1, {"\n"}, 2, "\n")
        t3 == SubRuns(t2, {" ", "\t"}, 2, " ")
    IN  Strip(t3)

-----------------------------------------------------------------------------
(* split_sentences                                                         *)

MIN_SENTENCE_LEN == 25

\* re.split(r"(?<=[.!?])\s+", s): a separator is a maximal whitespace run
\* whose first character directly follows a terminal character; the result
\* is the fragments before, between and after the separators.
ReSplit(s) ==
    LET seps == SelectSeq(Positions(s),
                          LAMBDA i : i > 1 /\ s[i - 1] \in TERMINALS
                                           /\ s[i] \in WHITESPACE)
        from(k) == IF k = 1 THEN 1
                   ELSE seps[k - 1] + RunLen(s, seps[k - 1], WHITESPACE)
        to(k)   == IF k <= Len(seps) THEN seps[k] - 1 ELSE Len(s)
    IN  [k \in 1..(Len(seps) + 1) |-> SubSeq(s, from(k), to(k))]

\* re.sub(r"\s+", " ", t).strip()
CollapseWhitespace(t) == Strip(SubRuns(t, WHITESPACE, 1, " "))

\* Mutant of split_sentences: fragments of exactly 25 characters dropped.
split_sentences_gt(t) ==
    LET t1 == CollapseWhitespace(t) IN
    IF t1 = <<>> THEN <<>>
    ELSE LET frags == ReSplit(t1)
             kept  == SelectSeq(frags, LAMBDA s : Len(Strip(s)) > MIN_SENTENCE_LEN)
         IN  [i \in 1..Len(kept) |-> Strip(kept[i])]

split_sentences(t) ==
    LET t1 == CollapseWhitespace(t) IN
    IF t1 = <<>> THEN <<>>
    ELSE LET frags == ReSplit(t1)
             kept  == SelectSeq(frags, LAMBDA s : Len(Strip(s)) >= MIN_SENTENCE_LEN)
         IN  [i \in 1..Len(kept) |-> Strip(kept[i])]

-----------------------------------------------------------------------------
(* tokenize_words                                                          *)

UPPER ==
    <<"A", "B", "C", "D", "E", "F", "G", "H", "I", "J", "K", "L", "M",
      "N", "O", "P", "Q", "R", "S", "T", "U", "V", "W", "X", "Y", "Z">>
LOWER ==
    <<"a", "b", "c", "d", "e", "f", "g", "h", "i", "j", "k", "l", "m",
      "n", "o", "p", "q", "r", "s", "t", "u", "v", "w", "x", "y", "z">>
DIGITS == {"0", "1", "2", "3", "4", "5", "6", "7", "8", "9"}

\* The class [a-zA-Z0-9'] of the token regex.
TOKEN_CHARS ==
    {UPPER[i] : i \in 1..26} \cup {LOWER[i] : i \in 1..26} \cup DIGITS \cup {"'"}

\* str.lower(), on ASCII
LowerChar(c) ==
    IF \E i \in 1..26 : UPPER[i] = c
    THEN LOWER[CHOOSE i \in 1..26 : UPPER[i] = c]
    ELSE c

Lower(s) == [i \in 1..Len(s) |-> LowerChar(s[i])]

\* re.findall(r"[a-zA-Z0-9']+", text.lower()): the maximal runs of token
\* characters, left to right.
tokenize_words(t) ==
    LET l == Lower(t)
        starts == SelectSeq(Positions(l), LAMBDA i : RunStartsAt(l, i, TOKEN_CHARS))
    IN  [k \in 1..Len(starts) |->
            SubSeq(l, starts[k], starts[k] + RunLen(l, starts[k], TOKEN_CHARS) - 1)]

\* STOPWORDS, each word as its characters
STOPWORDS ==
    { <<"a">>, <<"a","n">>, <<"a","n","d">>, <<"a","r","e">>, <<"a","s">>, <<"a","t">>,
      <<"b","e">>, <<"b","y">>, <<"f","o","r">>, <<"f","r","o","m">>, <<"h","a","s">>,
      <<"h","e">>, <<"i","n">>, <<"i","s">>, <<"i","t">>, <<"i","t","s">>, <<"o","f">>,
      <<"o","n">>, <<"o","r">>, <<"t","h","a","t">>, <<"t","h","e">>, <<"t","o">>,
      <<"w","a","s">>, <<"w","e","r","e">>, <<"w","i","l","l">>, <<"w","i","t","h">>,
      <<"y","o","u">>, <<"y","o","u","r">>, <<"w","e">>, <<"t","h","e","y">>,
      <<"t","h","e","m">>, <<"t","h","i","s">>, <<"t","h","o","s","e">>,
      <<"t","h","e","s","e">>, <<"i">>, <<"m","y">>, <<"o","u","r">>, <<"u","s">>,
      <<"n","o","t">>, <<"c","a","n">>, <<"c","o","u","l","d">>, <<"s","h","o","u","l","d">>,
      <<"w","o","u","l","d">>, <<"m","a","y">>, <<"m","i","g","h","t">>,
      <<"a","b","o","u","t">>, <<"i","n","t","o">>, <<"t","h","a","n">>, <<"t","h","e","n">> }

-----------------------------------------------------------------------------
(* Counter, sorting, slicing, joining                                      *)

\* Mutant of Qualifying: stopwords are not left out.
QualifyingWithStopwords(words, minlen) ==
    SelectSeq(words, LAMBDA w : Len(w) > minlen)

\* (w for w in words if w not in STOPWORDS and len(w) > minlen)
Qualifying(words, minlen) ==
    SelectSeq(words, LAMBDA w : w \notin STOPWORDS /\ Len(w) > minlen)

\* collections.Counter(words): a dict, modelled as the sequence of its
\* <<key, count>> items in insertion order (the order of first occurrence).
Counter(words) ==
    LET firsts == SelectSeq(Positions(words),
                            LAMBDA i : \A j \in 1..(i - 1) : words[j] # words[i])
    IN  [k \in 1..Len(firsts) |->
            <<words[firsts[k]],
              Cardinality({j \in 1..Len(words) : words[j] = words[firsts[k]]})>>]

\* w in freq
InCounter(freq, w) == \E k \in 1..Len(freq) : freq[k][1] = w

\* freq[w], for w in freq
CounterGet(freq, w) == freq[CHOOSE k \in 1..Len(freq) : freq[k][1] = w][2]

\* sum(f[1], ..., f[n])
RECURSIVE SumTo(_, _)
SumTo(f, n) == IF n = 0 THEN 0 ELSE SumTo(f, n - 1) + f[n]

\* Mutant of InsertSorted: x goes in front of the items with an equal key
\* (a sort that is not stable).
InsertSortedUnstable(s, x, c, reverse) ==
    LET after == {p \in 1..Len(s) : IF reverse THEN s[p][c] <= x[c] ELSE s[p][c] >= x[c]}
        at == IF after = {} THEN Len(s) + 1 ELSE Min(after)
    IN  SubSeq(s, 1, at - 1) \o <<x>> \o SubSeq(s, at, Len(s))

\* x put into the sorted sequence s behind every item that does not sort
\* strictly after it: by component c, descending if reverse, else ascending.
InsertSorted(s, x, c, reverse) ==
    LET after == {p \in 1..Len(s) : IF reverse THEN s[p][c] < x[c] ELSE s[p][c] > x[c]}
        at == IF after = {} THEN Len(s) + 1 ELSE Min(after)
    IN  SubSeq(s, 1, at - 1) \o <<x>> \o SubSeq(s, at, Len(s))

\* list.sort / sorted with key = component c: a stable sort of the first n
\* items of s.
RECURSIVE StableSortTo(_, _, _, _)
StableSortTo(s, n, c, reverse) ==
    IF n = 0 THEN <<>>
    ELSE InsertSorted(StableSortTo(s, n - 1, c, reverse), s[n], c, reverse)

StableSort(s, c, reverse) == StableSortTo(s, Len(s), c, reverse)

\* s[:m], for any integer m
SliceTo(s, m) ==
    IF m >= 0 THEN SubSeq(s, 1, IF m < Len(s) THEN m ELSE Len(s))
    ELSE SubSeq(s, 1, Len(s) + m)

\* min(a, b)
MinOf(a, b) == IF a <= b THEN a ELSE b

\* " ".join(strs)
RECURSIVE JoinTo(_, _)
JoinTo(strs, n) ==
    IF n = 0 THEN <<>>
    ELSE IF n = 1 THEN strs[1]
    ELSE JoinTo(strs, n - 1) \o <<" ">> \o strs[n]

Join(strs) == JoinTo(strs, Len(strs))

-----------------------------------------------------------------------------
(* summarize_text                                                          *)

\* "Could not extract enough text to summarise. Try a different file or a
\* clearer PDF."
NO_TEXT_MSG ==
    <<"C","o","u","l","d"," ","n","o","t"," ","e","x","t","r","a","c","t"," ",
      "e","n","o","u","g","h"," ","t","e","x","t"," ","t","o"," ","s","u","m",
      "m","a","r","i","s","e","."," ","T","r","y"," ","a"," ","d","i","f","f",
      "e","r","e","n","t"," ","f","i","l","e"," ","o","r"," ","a"," ","c","l",
      "e","a","r","e","r"," ","P","D","F",".">>

\* "Text was extracted, but it was too limited to summarise."
TOO_LIMITED_MSG ==
    <<"T","e","x","t"," ","w","a","s"," ","e","x","t","r","a","c","t","e","d",
      ","," ","b","u","t"," ","i","t"," ","w","a","s"," ","t","o","o"," ","l",
      "i","m","i","t","e","d"," ","t","o"," ","s","u","m","m","a","r","i","s",
      "e",".">>

SUMMARY_MIN_WORD_LEN == 2

\* freq of summarize_text
SummaryFreq(t) == Counter(Qualifying(tokenize_words(t), SUMMARY_MIN_WORD_LEN))

\* score = sum(freq[w] for w in s_words if w in freq)
SentenceScore(s, freq) ==
    LET s_words == tokenize_words(s)
        known == SelectSeq(s_words, LAMBDA w : InCounter(freq, w))
    IN  SumTo([k \in 1..Len(known) |-> CounterGet(freq, known[k])], Len(known))

\* the list scored: <<score, idx, s>> for (idx, s) in enumerate(sentences)
Scored(snts, freq) ==
    [k \in 1..Len(snts) |-> <<SentenceScore(snts[k], freq), k - 1, snts[k]>>]

\* scored.sort(reverse=True, key=score); top = scored[: min(num_sentences, len(scored))]
TopSentences(scored, num_sentences) ==
    SliceTo(StableSort(scored, 1, TRUE), MinOf(num_sentences, Len(scored)))

\* top_sorted = sorted(top, key=idx); " ".join(s for _, _, s in top_sorted)
SummaryOf(top) ==
    LET top_sorted == StableSort(top, 2, FALSE)
    IN  Join([k \in 1..Len(top_sorted) |-> top_sorted[k][3]])

summarize_text(t, num_sentences) ==
    LET snts == split_sentences(t) IN
    IF snts = <<>> THEN NO_TEXT_MSG
    ELSE LET freq == SummaryFreq(t) IN
         IF freq = <<>> THEN TOO_LIMITED_MSG
         ELSE SummaryOf(TopSentences(Scored(snts, freq), num_sentences))

-----------------------------------------------------------------------------
(* generate_questions                                                      *)

QUESTION_MIN_WORD_LEN == 3
MAX_KEY_TERMS == 10

\* The five templates, each as the characters before and after {term}.
T0pre ==
    <<"D","e","f","i","n","e",":"," ","'">>
T0suf ==
    <<"'",".">>
T1pre ==
    <<"E","x","p","l","a","i","n"," ","t","h","e"," ","i","m","p","o","r","t",
      "a","n","c","e"," ","o","f"," ","'">>
T1suf ==
    <<"'"," ","i","n"," ","t","h","e"," ","t","o","p","i","c",".">>
T2pre ==
    <<"G","i","v","e"," ","o","n","e"," ","e","x","a","m","p","l","e"," ","o",
      "f"," ","h","o","w"," ","'">>
T2suf ==
    <<"'"," ","i","s"," ","u","s","e","d",".">>
T3pre ==
    <<"W","h","a","t"," ","a","r","e"," ","t","h","e"," ","b","e","n","e","f",
      "i","t","s"," ","o","r"," ","r","i","s","k","s"," ","r","e","l","a","t",
      "e","d"," ","t","o"," ","'">>
T3suf ==
    <<"'","?">>
T4pre ==
    <<"H","o","w"," ","d","o","e","s"," ","'">>
T4suf ==
    <<"'"," ","i","m","p","a","c","t"," ","u","s","e","r","s"," ","o","r"," ",
      "s","y","s","t","e","m","s","?">>

\* templates: each "<prefix>{term}<suffix>" as <<prefix, suffix>>
TEMPLATES == <<<<T0pre, T0suf>>, <<T1pre, T1suf>>, <<T2pre, T2suf>>,
               <<T3pre, T3suf>>, <<T4pre, T4suf>>>>

\* template.format(term=term)
Format(template, term) == template[1] \o term \o template[2]

\* The three generic questions.
F0 ==
    <<"S","u","m","m","a","r","i","s","e"," ","t","h","e"," ","m","a","i","n",
      " ","i","d","e","a"," ","o","f"," ","t","h","e"," ","d","o","c","u","m",
      "e","n","t"," ","i","n"," ","y","o","u","r"," ","o","w","n"," ","w","o",
      "r","d","s",".">>
F1 ==
    <<"L","i","s","t"," ","3"," ","k","e","y"," ","p","o","i","n","t","s"," ",
      "f","r","o","m"," ","t","h","e"," ","d","o","c","u","m","e","n","t",".">>
F2 ==
    <<"W","h","a","t"," ","p","r","o","b","l","e","m"," ","i","s"," ","b","e",
      "i","n","g"," ","d","i","s","c","u","s","s","e","d"," ","a","n","d"," ",
      "w","h","a","t"," ","s","o","l","u","t","i","o","n"," ","i","s"," ","s",
      "u","g","g","e","s","t","e","d","?">>

FALLBACK_QUESTIONS == <<F0, F1, F2>>

\* freq.most_common(n): the items sorted by count, descending and stable,
\* cut to the first n
MostCommon(freq, n) == SliceTo(StableSort(freq, 2, TRUE), n)

\* key_terms = [w for w, _ in freq.most_common(10)]
KeyTerms(t) ==
    LET freq == Counter(Qualifying(tokenize_words(t), QUESTION_MIN_WORD_LEN))
        common == MostCommon(freq, MAX_KEY_TERMS)
    IN  [k \in 1..Len(common) |-> common[k][1]]

\* the for loop over key_terms, from its i-th term on, with the questions
\* qs collected and the template counter t_i
RECURSIVE QuestionLoop(_, _, _, _, _)
QuestionLoop(key_terms, i, qs, t_i, max_q) ==
    IF i > Len(key_terms) \/ Len(qs) >= max_q THEN qs
    ELSE QuestionLoop(key_terms, i + 1,
             Append(qs, Format(TEMPLATES[(t_i % Len(TEMPLATES)) + 1], key_terms[i])),
             t_i + 1, max_q)

generate_questions(t, max_q) ==
    LET qs == QuestionLoop(KeyTerms(t), 1, <<>>, 0, max_q)
    IN  IF qs = <<>> THEN FALLBACK_QUESTIONS ELSE qs

-----------------------------------------------------------------------------
(* Inputs                                                                  *)

\* All strings over alphabet A of length at most n.
StringsUpTo(A, n) == UNION {[1..k -> A] : k \in 0..n}

\* Character-level inputs of clean_text.
MaxLen == 5
CleanAlphabet == {"a", " ", "\t", "\n", "\r", "\f"}
CleanInputs == StringsUpTo(CleanAlphabet, MaxLen)

-----------------------------------------------------------------------------
(* The functions as operations on the state                                *)

NoResults ==
    /\ sentences = <<>>
    /\ summary = <<>>
    /\ questions = <<>>

\* No request is being handled.
NoRequest ==
    /\ pc = "idle"
    /\ method = "none"
    /\ has_file = FALSE
    /\ filename = <<>>
    /\ saved_name = <<>>
    /\ content = <<>>
    /\ passed = <<>>
    /\ calls = <<>>
    /\ flashes = <<>>
    /\ response = "none"

InitWith(inputs) ==
    /\ raw_text \in inputs
    /\ text = raw_text
    /\ op = "input"
    /\ arg = 0
    /\ NoResults
    /\ NoRequest

\* text = clean_text(raw_text)
CleanText ==
    /\ op = "input"
    /\ text' = clean_text(text)
    /\ op' = "clean_text"
    /\ UNCHANGED <<raw_text, arg, sentences, summary, questions, reqVars>>

\* sentences = split_sentences(text), on a raw or a cleaned text
SplitSentences ==
    /\ op \in {"input", "clean_text"}
    /\ sentences' = split_sentences(text)
    /\ op' = "split_sentences"
    /\ UNCHANGED <<raw_text, text, arg, summary, questions, reqVars>>

InitClean == InitWith(CleanInputs)
NextClean == CleanText
SpecClean == InitClean /\ [][NextClean]_vars

\* Inputs of split_sentences: concatenations of at most MaxPieces pieces,
\* long enough to reach the 25-character threshold.
MaxPieces == 4
A24 == Rep("a", 24)
SplitPieces ==
    { A24, Append(A24, "."), <<"b">>, <<"?">>, <<" ">>, <<"\n">>, <<"\t">> }

RECURSIVE Concat(_)
Concat(ps) == IF ps = <<>> THEN <<>> ELSE Head(ps) \o Concat(Tail(ps))

PieceTexts(pieces, n) == {Concat(ps) : ps \in StringsUpTo(pieces, n)}

InitSplit == InitWith(PieceTexts(SplitPieces, MaxPieces))
NextSplit == CleanText \/ SplitSentences
SpecSplit == InitSplit /\ [][NextSplit]_vars

\* Inputs of summarize_text and generate_questions: at most MaxFrags
\* fragments, joined by single spaces.
MaxFrags == 3

alpha   == <<"a","l","p","h","a">>
bravo   == <<"b","r","a","v","o">>
charlie == <<"c","h","a","r","l","i","e">>
delta   == <<"d","e","l","t","a">>
echo    == <<"e","c","h","o">>
foxtrot == <<"f","o","x","t","r","o","t">>
golf    == <<"g","o","l","f">>
hotel   == <<"h","o","t","e","l">>
india   == <<"i","n","d","i","a">>
juliett == <<"j","u","l","i","e","t","t">>
kilo    == <<"k","i","l","o">>
fox     == <<"f","o","x">>

Fragments ==
    { \* "alpha bravo charlie delta."
      Join(<<alpha, bravo, charlie, delta>>) \o <<".">>,
      \* "delta charlie bravo alpha!": the same words, so the same score
      Join(<<delta, charlie, bravo, alpha>>) \o <<"!">>,
      \* "echo foxtrot golf hotel india."
      Join(<<echo, foxtrot, golf, hotel, india>>) \o <<".">>,
      \* "juliett kilo alpha The Fox."
      Join(<<juliett, kilo, alpha, <<"T","h","e">>, <<"F","o","x">>>>) \o <<".">>,
      \* "about those these would the.": a sentence of stopwords only
      Join(<<<<"a","b","o","u","t">>, <<"t","h","o","s","e">>, <<"t","h","e","s","e">>,
             <<"w","o","u","l","d">>, <<"t","h","e">>>>) \o <<".">>,
      \* "fox kilo": too short for a sentence, not terminated
      Join(<<fox, kilo>>),
      \* "It was.": too short for a sentence, stopwords only
      Join(<<<<"I","t">>, <<"w","a","s">>>>) \o <<".">> }

FragmentTexts == {Join(fs) : fs \in UNION {[1..k -> Fragments] : k \in 1..MaxFrags}}

\* The arguments tried: around 0, around the number of sentences, and the
\* program's own 6; and around the 5 templates and the 10 key terms.
NumSentencesChoices == {-1, 0, 1, 2, 6}
MaxQChoices == {-1, 0, 1, 6, 11}

\* summary = summarize_text(text, num_sentences)
SummarizeText ==
    /\ op = "input"
    /\ \E n \in NumSentencesChoices :
           /\ arg' = n
           /\ summary' = summarize_text(text, n)
    /\ op' = "summarize_text"
    /\ UNCHANGED <<raw_text, text, sentences, questions, reqVars>>

\* questions = generate_questions(text, max_q)
GenerateQuestions ==
    /\ op = "input"
    /\ \E q \in MaxQChoices :
           /\ arg' = q
           /\ questions' = generate_questions(text, q)
    /\ op' = "generate_questions"
    /\ UNCHANGED <<raw_text, text, sentences, summary, reqVars>>

Init == InitWith(FragmentTexts)
Next == SummarizeText \/ GenerateQuestions
Spec == Init /\ [][Next]_vars

-----------------------------------------------------------------------------
(* index(): one request                                                    *)

\* ALLOWED_EXTENSIONS
ALLOWED_EXTENSIONS == {<<"p","d","f">>, <<"t","x","t">>}

\* "." in name
HasDot(name) == \E i \in 1..Len(name) : name[i] = "."

\* name.rsplit(".", 1)[1], for a name with a "." in it
AfterLastDot(name) ==
    SubSeq(name, Max({i \in 1..Len(name) : name[i] = "."}) + 1, Len(name))

allowed_file(name) ==
    HasDot(name) /\ Lower(AfterLastDot(name)) \in ALLOWED_EXTENSIONS

\* werkzeug's secure_filename, on names of letters, digits, ".", "_" and "-":
\* the name with every leading and trailing "." and "_" stripped.
secure_filename(name) ==
    LET keep == {i \in 1..Len(name) : name[i] \notin {".", "_"}} IN
    IF keep = {} THEN <<>> ELSE SubSeq(name, Min(keep), Max(keep))

MIN_TEXT_LEN == 200
NUM_SENTENCES == 6
MAX_Q == 6

\* flash(message); return redirect(...)
FlashAndRedirect(message) ==
    /\ flashes' = Append(flashes, message)
    /\ response' = "redirect"
    /\ pc' = "done"

\* if request.method == "POST": ... ; return render_template("index.html")
Dispatch ==
    /\ pc = "request"
    /\ IF method = "POST"
       THEN pc' = "check_part" /\ UNCHANGED response
       ELSE pc' = "done" /\ response' = "index.html"
    /\ UNCHANGED <<textVars, method, has_file, filename, saved_name, content,
                   passed, calls, flashes>>

\* if "file" not in request.files: flash; redirect
CheckFilePart ==
    /\ pc = "check_part"
    /\ IF ~has_file
       THEN FlashAndRedirect("No file part found.") /\ UNCHANGED passed
       ELSE /\ pc' = "check_name"
            /\ passed' = Append(passed, "file part")
            /\ UNCHANGED <<flashes, response>>
    /\ UNCHANGED <<textVars, method, has_file, filename, saved_name, content, calls>>

\* if file.filename == "": flash; redirect
CheckFilename ==
    /\ pc = "check_name"
    /\ IF filename = <<>>
       THEN FlashAndRedirect("No file selected.") /\ UNCHANGED passed
       ELSE /\ pc' = "check_type"
            /\ passed' = Append(passed, "filename")
            /\ UNCHANGED <<flashes, response>>
    /\ UNCHANGED <<textVars, method, has_file, filename, saved_name, content, calls>>

\* if file and allowed_file(file.filename): ... ; else flash; redirect
CheckAllowed ==
    /\ pc = "check_type"
    /\ IF allowed_file(filename)
       THEN /\ pc' = "save"
            /\ passed' = Append(passed, "extension")
            /\ UNCHANGED <<flashes, response>>
       ELSE FlashAndRedirect("File type not allowed. Upload a PDF or TXT.")
            /\ UNCHANGED passed
    /\ UNCHANGED <<textVars, method, has_file, filename, saved_name, content, calls>>

\* filename = secure_filename(file.filename); file.save(save_path);
\* ext = filename.rsplit(".", 1)[1].lower(), which raises IndexError, outside
\* any try, when the secured name has no "." left: the request ends in an
\* error response.
SaveFile ==
    /\ pc = "save"
    /\ saved_name' = secure_filename(filename)
    /\ IF HasDot(secure_filename(filename))
       THEN pc' = "read" /\ UNCHANGED response
       ELSE pc' = "done" /\ response' = "error"
    /\ UNCHANGED <<textVars, method, has_file, filename, content, passed, calls,
                   flashes>>

\* try: raw_text = read_pdf(save_path) or read_txt(save_path)
\* except Exception: flash; redirect
\* (the flashed messages are given by their first sentence)
ReadFile ==
    /\ pc = "read"
    /\ \/ /\ raw_text' = content
          /\ pc' = "clean"
          /\ passed' = Append(passed, "read")
          /\ UNCHANGED <<flashes, response>>
       \/ /\ FlashAndRedirect("Error reading file")
          /\ UNCHANGED <<raw_text, passed>>
    /\ UNCHANGED <<text, op, arg, sentences, summary, questions, method, has_file,
                   filename, saved_name, content, calls>>

\* text = clean_text(raw_text); if len(text) < 200: flash; redirect
CleanAndCheckLength ==
    /\ pc = "clean"
    /\ text' = clean_text(raw_text)
    /\ IF Len(clean_text(raw_text)) < MIN_TEXT_LEN
       THEN FlashAndRedirect("Extracted text is too short.") /\ UNCHANGED passed
       ELSE /\ pc' = "summarize"
            /\ passed' = Append(passed, "length")
            /\ UNCHANGED <<flashes, response>>
    /\ UNCHANGED <<raw_text, op, arg, sentences, summary, questions, method,
                   has_file, filename, saved_name, content, calls>>

\* summary = summarize_text(text, num_sentences=6)
CallSummarize ==
    /\ pc = "summarize"
    /\ summary' = summarize_text(text, NUM_SENTENCES)
    /\ calls' = Append(calls, "summarize_text")
    /\ pc' = "questions"
    /\ UNCHANGED <<raw_text, text, op, arg, sentences, questions, method, has_file,
                   filename, saved_name, content, passed, flashes, response>>

\* questions = generate_questions(text, max_q=6)
CallQuestions ==
    /\ pc = "questions"
    /\ questions' = generate_questions(text, MAX_Q)
    /\ calls' = Append(calls, "generate_questions")
    /\ pc' = "render"
    /\ UNCHANGED <<raw_text, text, op, arg, sentences, summary, method, has_file,
                   filename, saved_name, content, passed, flashes, response>>

\* return render_template("result.html", ...)
RenderResult ==
    /\ pc = "render"
    /\ response' = "result.html"
    /\ pc' = "done"
    /\ UNCHANGED <<textVars, method, has_file, filename, saved_name, content,
                   passed, calls, flashes>>

\* The requests tried.
Filenames ==
    { <<>>,
      <<"n",".","t","x","t">>,
      <<"n",".","P","D","F">>,
      <<"n",".","e","x","e">>,
      <<"n","o","t","e","s">>,
      <<".","p","d","f">>,
      <<"a",".","b",".","t","x","t">> }

\* Eight sentences, 222 characters.
EightSentences ==
    Join(<<Join(<<alpha, bravo, charlie, delta>>) \o <<".">>,
           Join(<<echo, foxtrot, golf, hotel, india>>) \o <<".">>,
           Join(<<juliett, kilo, alpha, <<"T","h","e">>, <<"F","o","x">>>>) \o <<".">>,
           Join(<<delta, charlie, bravo, alpha>>) \o <<"!">>,
           Join(<<kilo, kilo, india, golf, foxtrot>>) \o <<"?">>,
           Join(<<echo, foxtrot, golf, hotel, india>>) \o <<".">>,
           Join(<<alpha, bravo, charlie, delta>>) \o <<".">>,
           Join(<<juliett, kilo, alpha, <<"T","h","e">>, <<"F","o","x">>>>) \o <<".">>>>)

Contents ==
    { <<"I","t"," ","w","a","s",".">>,
      Rep("a", MIN_TEXT_LEN),
      \* 203 characters that clean_text brings down to 199
      <<" ", " ">> \o Rep("a", MIN_TEXT_LEN - 1) \o <<"\n", "\n">>,
      \* the same sentences with doubled newlines between two copies
      EightSentences \o <<"\r", "\n">> \o EightSentences,
      EightSentences }

InitRequest ==
    /\ pc = "request"
    /\ method \in {"GET", "POST"}
    /\ has_file \in BOOLEAN
    /\ filename \in Filenames
    /\ content \in Contents
    /\ saved_name = <<>>
    /\ passed = <<>>
    /\ calls = <<>>
    /\ flashes = <<>>
    /\ response = "none"
    /\ raw_text = <<>>
    /\ text = <<>>
    /\ op = "input"
    /\ arg = 0
    /\ NoResults

NextRequest ==
    \/ Dispatch
    \/ CheckFilePart
    \/ CheckFilename
    \/ CheckAllowed
    \/ SaveFile
    \/ ReadFile
    \/ CleanAndCheckLength
    \/ CallSummarize
    \/ CallQuestions
    \/ RenderResult

SpecRequest == InitRequest /\ [][NextRequest]_vars

-----------------------------------------------------------------------------
(* Properties of clean_text                                                *)

\* C5: clean_text is idempotent: cleaning a cleaned text changes nothing.
C5_CleanIdempotent == op = "clean_text" => clean_text(text) = text

\* A text that cleaning changed, to something non-empty.
C5_Witness == op = "clean_text" /\ text # raw_text /\ text # <<>>

HORIZONTAL == {" ", "\t"}

\* C6: a cleaned text holds no carriage return, no two consecutive newlines,
\* no two consecutive space/tab characters, and no whitespace at either end;
\* the empty text is cleaned to the empty text.
C6_CleanShape ==
    op = "clean_text" =>
        /\ \A i \in 1..Len(text) : text[i] # "\r"
        /\ \A i \in 1..(Len(text) - 1) : ~(text[i] = "\n" /\ text[i + 1] = "\n")
        /\ \A i \in 1..(Len(text) - 1) :
               ~(text[i] \in HORIZONTAL /\ text[i + 1] \in HORIZONTAL)
        /\ text # <<>> => text[1] \notin WHITESPACE /\ text[Len(text)] \notin WHITESPACE
        /\ raw_text = <<>> => text = <<>>

\* A raw text with a tab run and a carriage return inside it was cleaned.
C6_Witness ==
    /\ op = "clean_text"
    /\ \E i \in 1..(Len(raw_text) - 1) : raw_text[i] = "\t" /\ raw_text[i + 1] = "\t"
    /\ \E i \in 1..Len(raw_text) : raw_text[i] = "\r"
    /\ Len(text) >= 3

-----------------------------------------------------------------------------
(* Properties of split_sentences                                           *)

IsSubstringAt(sub, s, p) ==
    p + Len(sub) - 1 <= Len(s) /\ SubSeq(s, p, p + Len(sub) - 1) = sub

IsSubstring(sub, s) == \E p \in 1..(Len(s) + 1) : IsSubstringAt(sub, s, p)

\* Whether the strings of ss occur in s one after the other, without overlap,
\* from position p on (leftmost occurrences, which is enough).
RECURSIVE OccurInOrder(_, _, _)
OccurInOrder(ss, s, p) ==
    IF ss = <<>> THEN TRUE
    ELSE LET at == {q \in p..(Len(s) + 1) : IsSubstringAt(Head(ss), s, q)} IN
         at # {} /\ OccurInOrder(Tail(ss), s, Min(at) + Len(Head(ss)))

\* A split point of c: whitespace directly after a terminal character.
IsSplitPoint(c, k) == k > 1 /\ c[k] \in WHITESPACE /\ c[k - 1] \in TERMINALS

\* c[i..j] is a fragment between two neighbouring split points (or ends) of c.
IsFragment(c, i, j) ==
    /\ i <= j
    /\ i = 1 \/ IsSplitPoint(c, i - 1)
    /\ j = Len(c) \/ IsSplitPoint(c, j + 1)
    /\ \A k \in i..j : ~IsSplitPoint(c, k)

\* C7: every sentence has at least 25 characters and no whitespace at either
\* end; the sentences occur in the text in their order; there is a sentence
\* whenever the whitespace-collapsed text has a fragment of at least 25
\* characters between split points; a text without '.', '!' or '?' gives its
\* collapsed form as the one sentence if that has at least 25 characters, and
\* no sentence otherwise.
C7_SplitShape ==
    op = "split_sentences" =>
        LET c == CollapseWhitespace(text) IN
        /\ \A n \in 1..Len(sentences) :
               /\ Len(sentences[n]) >= 25
               /\ sentences[n][1] \notin WHITESPACE
               /\ sentences[n][Len(sentences[n])] \notin WHITESPACE
        /\ OccurInOrder(sentences, c, 1)
        /\ (\E i, j \in 1..Len(c) : IsFragment(c, i, j) /\ j - i + 1 >= 25)
               => sentences # <<>>
        /\ (\A i \in 1..Len(text) : text[i] \notin TERMINALS)
               => sentences = IF Len(c) >= 25 THEN <<c>> ELSE <<>>

\* Two different sentences of exactly 25 characters were returned.
C7_Witness ==
    /\ op = "split_sentences"
    /\ Len(sentences) = 2
    /\ sentences[1] # sentences[2]
    /\ Len(sentences[1]) = 25

\* text is a CleanText: the output of clean_text on the raw text.
IsCleanText == text = clean_text(raw_text)

\* C8 as stated: every sentence of a CleanText is a contiguous substring of it.
C8_SentencesVerbatim ==
    (op = "split_sentences" /\ IsCleanText) =>
        \A n \in 1..Len(sentences) : IsSubstring(sentences[n], text)

\* C8 amended: every sentence of a CleanText is a contiguous substring of the
\* CleanText with each whitespace run replaced by one space, and of the
\* CleanText itself when its only whitespace characters are spaces.
C8_SentencesVerbatimCollapsed ==
    (op = "split_sentences" /\ IsCleanText) =>
        \A n \in 1..Len(sentences) :
            /\ IsSubstring(sentences[n], CollapseWhitespace(text))
            /\ (\A i \in 1..Len(text) : text[i] \in WHITESPACE => text[i] = " ")
                   => IsSubstring(sentences[n], text)

\* A CleanText that differs from its raw text gave a sentence with a space in it.
C8_Witness ==
    /\ op = "split_sentences"
    /\ IsCleanText
    /\ text # raw_text
    /\ Len(sentences) = 1
    /\ \E i \in 1..Len(sentences[1]) : sentences[1][i] = " "
    /\ \A i \in 1..Len(text) : text[i] \in WHITESPACE => text[i] = " "

-----------------------------------------------------------------------------
(* Properties of summarize_text                                            *)

\* The items of s at the positions in I, in ascending order of position.
Pick(s, I) ==
    LET at == SelectSeq(Positions(s), LAMBDA i : i \in I)
    IN  [k \in 1..Len(at) |-> s[at[k]]]

IsFallbackSummary == summary \in {NO_TEXT_MSG, TOO_LIMITED_MSG}

\* The summary joins, in document order, at most `limit` of the sentences
\* (none of them for a negative limit).
JoinsAtMost(limit) ==
    LET ss == split_sentences(text) IN
    \E I \in SUBSET (1..Len(ss)) :
        /\ Cardinality(I) <= (IF limit < 0 THEN 0 ELSE limit)
        /\ summary = Join(Pick(ss, I))

\* C1 as stated: for every integer num_sentences, a non-fallback summary is
\* the single-space join of at most num_sentences of the sentences of
\* split_sentences, taken in strictly increasing index order.
C1_SummaryAtMostTarget ==
    (op = "summarize_text" /\ ~IsFallbackSummary) => JoinsAtMost(arg)

\* C1 for num_sentences >= 0 only, where the code does as the claim says.
C1_SummaryAtMostTargetNonNegative ==
    (op = "summarize_text" /\ ~IsFallbackSummary /\ arg >= 0) => JoinsAtMost(arg)

\* The number of times token w occurs in the token list toks.
Occurrences(toks, w) == Cardinality({q \in 1..Len(toks) : toks[q] = w})

\* The score the claim gives a sentence with tokens sw in a text with
\* tokens tw: one for every pair of a token occurrence in the sentence and an
\* occurrence of the same token in the text, the token being no stopword and
\* longer than 2.
ClaimedScore(sw, tw) ==
    Cardinality({pq \in (1..Len(sw)) \X (1..Len(tw)) :
                    /\ sw[pq[1]] = tw[pq[2]]
                    /\ sw[pq[1]] \notin STOPWORDS
                    /\ Len(sw[pq[1]]) > 2})

\* The summary joins, in document order, exactly the k sentences that come
\* first by descending score, equal scores by ascending index.
JoinsTopRanked(k) ==
    LET ss == split_sentences(text)
        tw == tokenize_words(text)
        score == [i \in 1..Len(ss) |-> ClaimedScore(tokenize_words(ss[i]), tw)]
        ahead == [i \in 1..Len(ss) |->
                     {j \in 1..Len(ss) :
                         score[j] > score[i] \/ (score[j] = score[i] /\ j < i)}]
        selected == {i \in 1..Len(ss) : Cardinality(ahead[i]) < k}
    IN  summary = Join(Pick(ss, selected))

\* C2 as stated: the summary is made of exactly the k = min(num_sentences,
\* number of sentences) sentences first in the order by descending score,
\* equal scores by ascending index, the score being the sum over the
\* sentence's token occurrences of the token's count in the whole text.
C2_SelectsTopRanked ==
    (op = "summarize_text" /\ ~IsFallbackSummary) =>
        JoinsTopRanked(MinOf(arg, Len(split_sentences(text))))

\* C2 for num_sentences >= 0 only, where the code does as the claim says.
C2_SelectsTopRankedNonNegative ==
    (op = "summarize_text" /\ ~IsFallbackSummary /\ arg >= 0) =>
        JoinsTopRanked(MinOf(arg, Len(split_sentences(text))))

\* No token of the text is a non-stopword longer than minlen.
NoQualifyingToken(t, minlen) ==
    LET tw == tokenize_words(t) IN
    \A q \in 1..Len(tw) : tw[q] \in STOPWORDS \/ Len(tw[q]) <= minlen

\* C4 as stated: a text without qualifying token gets the "too limited"
\* summary and the three generic questions.
C4_FallbacksWithoutTokens ==
    /\ (op = "summarize_text" /\ NoQualifyingToken(text, 2))
           => summary = TOO_LIMITED_MSG
    /\ (op = "generate_questions" /\ NoQualifyingToken(text, 3))
           => questions = FALLBACK_QUESTIONS

\* C4 amended: a text without qualifying token gets the "too limited"
\* summary if split_sentences finds a sentence in it and the "could not
\* extract enough text" summary if not, and the three generic questions.
C4_FallbacksWithoutTokensBySentences ==
    /\ (op = "summarize_text" /\ NoQualifyingToken(text, 2))
           => summary = IF split_sentences(text) # <<>> THEN TOO_LIMITED_MSG
                        ELSE NO_TEXT_MSG
    /\ (op = "generate_questions" /\ NoQualifyingToken(text, 3))
           => questions = FALLBACK_QUESTIONS

\* A text of stopwords only, with a sentence in it, was summarised.
C4_Witness ==
    /\ op = "summarize_text"
    /\ NoQualifyingToken(text, 2)
    /\ tokenize_words(text) # <<>>
    /\ split_sentences(text) # <<>>
    /\ summary = TOO_LIMITED_MSG

-----------------------------------------------------------------------------
(* Properties of generate_questions                                        *)

\* The key terms as the claim gives them, in a text with tokens tw: the
\* distinct non-stopword tokens longer than 3.
ClaimedTerms(tw) ==
    {tw[q] : q \in {r \in 1..Len(tw) : tw[r] \notin STOPWORDS /\ Len(tw[r]) > 3}}

FirstOccurrence(toks, w) == Min({q \in 1..Len(toks) : toks[q] = w})

\* The rank of each term: the number of terms with a higher count, or with
\* the same count and an earlier first occurrence.
ClaimedRank(tw) ==
    LET terms == ClaimedTerms(tw)
        count == [w \in terms |-> Occurrences(tw, w)]
        first == [w \in terms |-> FirstOccurrence(tw, w)]
    IN  [w \in terms |->
            Cardinality({u \in terms :
                \/ count[u] > count[w]
                \/ count[u] = count[w] /\ first[u] < first[w]})]

\* C3: with a qualifying token and max_q >= 1 there are exactly min(max_q,
\* number of candidate terms) questions, the candidates being the up-to-10
\* best ranked terms, and the i-th question (from 0) is template i mod 5 with
\* the i-th ranked term; a text with one qualifying word gives the one
\* question "Define: '<word>'.".
C3_QuestionsFromRankedTerms ==
    (op = "generate_questions" /\ arg >= 1) =>
        LET tw == tokenize_words(text)
            terms == ClaimedTerms(tw)
            rank == ClaimedRank(tw)
            candidates == IF Cardinality(terms) < 10 THEN Cardinality(terms) ELSE 10
        IN  terms # {} =>
            /\ Len(questions) = MinOf(arg, candidates)
            /\ \A i \in 0..(Len(questions) - 1) :
                   \E w \in terms :
                       /\ rank[w] = i
                       /\ questions[i + 1] = Format(TEMPLATES[(i % 5) + 1], w)
            /\ \A w \in terms :
                   terms = {w} => questions = <<T0pre \o w \o T0suf>>

\* Eleven terms qualified, some with equal counts and some without; ten
\* questions were made of them.
C3_Witness ==
    /\ op = "generate_questions"
    /\ arg = 11
    /\ Len(questions) = 10
    /\ LET tw == tokenize_words(text) IN
       /\ Cardinality(ClaimedTerms(tw)) = 11
       /\ \E u, w \in ClaimedTerms(tw) : Occurrences(tw, u) > Occurrences(tw, w)

\* A text whose only qualifying token is one word, twice, gave one question.
C3_WitnessOneWord ==
    /\ op = "generate_questions"
    /\ arg = 6
    /\ Len(questions) = 1
    /\ LET tw == tokenize_words(text) IN
       \E w \in ClaimedTerms(tw) : ClaimedTerms(tw) = {w} /\ Occurrences(tw, w) = 2

\* q is one of the templates with one of the terms in it.
IsTemplateQuestion(q, terms) ==
    \E k \in 1..Len(TEMPLATES) : \E w \in terms : q = Format(TEMPLATES[k], w)

\* The questions are the generic ones only if no term qualifies; if a term
\* qualifies, there are at most max_q of them, all instances of the templates.
FallbackOnlyWithoutTerms ==
    LET terms == ClaimedTerms(tokenize_words(text)) IN
    /\ questions = FALLBACK_QUESTIONS => terms = {}
    /\ terms # {} =>
           /\ Len(questions) <= arg
           /\ \A i \in 1..Len(questions) : IsTemplateQuestion(questions[i], terms)

\* C10 as stated: the generic questions are returned only when no term
\* qualifies; with a qualifying term and any integer max_q there are at most
\* max_q questions, all of them instances of the templates.
C10_FallbackOnlyWithoutTerms ==
    op = "generate_questions" => FallbackOnlyWithoutTerms

\* C10 for max_q >= 1 only, where the code does as the claim says.
C10_FallbackOnlyWithoutTermsPositive ==
    (op = "generate_questions" /\ arg >= 1) => FallbackOnlyWithoutTerms

-----------------------------------------------------------------------------
(* Properties of index()                                                   *)

\* The five checks, in the order the claim gives them.
ALL_CHECKS == <<"file part", "filename", "extension", "read", "length">>

\* summarize_text and generate_questions are called only once the five checks
\* were passed, in order.
CallsOnlyAfterChecks == calls # <<>> => passed = ALL_CHECKS

\* C9 as stated: the two functions are called only after the five checks were
\* passed in order, and every upload request that does not pass them all ends
\* in one flashed message and a redirect, with neither function called and no
\* result rendered.
C9_ChecksBeforeAnalysis ==
    /\ CallsOnlyAfterChecks
    /\ (pc = "done" /\ method = "POST" /\ passed # ALL_CHECKS) =>
           /\ Len(flashes) = 1
           /\ response = "redirect"
           /\ calls = <<>>

\* C9 without the requests whose secured file name has no "." left: the order
\* of checks and calls holds for every request, and every other request that
\* does not pass the five checks ends in a flash and a redirect.
C9_ChecksBeforeAnalysisNoError ==
    /\ CallsOnlyAfterChecks
    /\ (pc = "done" /\ method = "POST" /\ passed # ALL_CHECKS /\ response # "error") =>
           /\ Len(flashes) = 1
           /\ response = "redirect"
           /\ calls = <<>>
    /\ response = "result.html" => calls = <<"summarize_text", "generate_questions">>

=============================================================================
